---------------------------- MODULE Spec2Model ----------------------------
(***************************************************************************)
(* A model of scripts/build.py of Content Farm Terminator: the Rule line   *)
(* model and its classification, the Converter loop with its processors,   *)
(* scheme handling and group flush, and the Aggregator merge.              *)
(*                                                                         *)
(* Text is modelled as a sequence of one-character strings, so that the    *)
(* regular expressions of the source are modelled by what they match.      *)
(* The type None of a rule is the string "None".                           *)
(***************************************************************************)
EXTENDS Integers, Sequences, FiniteSets, TLC

VARIABLES
    input,          \* Rule spec: the line handed to Rule(input)
    rule,           \* Rule spec: the Rule object (or NoRule before construction)
    info,           \* Converter: the task data (processors, schemes)
    emitter,        \* Converter: the Converter subclass in use
    pc,             \* position in Converter.run; what was last called on rule
    line_no,        \* Converter: number of lines read from fh so far
    scheme_groups,  \* Converter: the scheme_groups dict, in insertion order
    stdout,         \* Converter: the lines printed so far
    step,           \* Converter: record of what the last loop step did
    flush,          \* Converter: the locals of handle_grouping_scheme_rules
    config,         \* Aggregator: config['aggregate'], the list of tasks
    files,          \* Aggregator: destination path -> text (NoFile if absent)
    task_no,        \* Aggregator: number of tasks the current run has executed
    runs,           \* Aggregator: number of runs of Aggregator.run started
    last            \* Aggregator: per task, what its last execution did

vars == <<input, rule, info, emitter, pc, line_no, scheme_groups, stdout,
          step, flush, config, files, task_no, runs, last>>

ruleVars == <<input, rule>>
convVars == <<info, emitter, pc, line_no, scheme_groups, stdout, step, flush>>
aggVars  == <<config, files, task_no, runs, last>>

-----------------------------------------------------------------------------
(* Characters and strings *)

Lower == {"a","b","c","d","e","f","g","h","i","j","k","l","m",
          "n","o","p","q","r","s","t","u","v","w","x","y","z"}
Digit == {"0","1","2","3","4","5","6","7","8","9"}
HexDigit == Digit \cup {"a","b","c","d","e","f","A","B","C","D","E","F"}

\* \s of the re module, restricted to the characters a line can hold
IsSpace(c) == c \in {" ", "\t"}

DigitVal(c) ==
    CASE c = "0" -> 0 [] c = "1" -> 1 [] c = "2" -> 2 [] c = "3" -> 3
      [] c = "4" -> 4 [] c = "5" -> 5 [] c = "6" -> 6 [] c = "7" -> 7
      [] c = "8" -> 8 [] c = "9" -> 9

\* Python's None where a string is optional, and where an integer is
None == <<"None">>
NoMax == -1

Min(S) == CHOOSE x \in S : \A y \in S : x <= y
Max(S) == CHOOSE x \in S : \A y \in S : x >= y

AllIn(s, C) == \A i \in 1..Len(s) : s[i] \in C

\* s[i:] of Python, i 1-based
From(s, i) == SubSeq(s, i, Len(s))

\* p occurs in s starting at position i
OccursAt(s, p, i) ==
    /\ i >= 1
    /\ i + Len(p) - 1 <= Len(s)
    /\ SubSeq(s, i, i + Len(p) - 1) = p

\* Python's "p in s"
Contains(s, p) == \E i \in 1..(Len(s) + 1) : OccursAt(s, p, i)

\* str.split(d) for a one-character delimiter
RECURSIVE Split(_, _)
Split(s, d) ==
    IF \A i \in 1..Len(s) : s[i] # d
    THEN <<s>>
    ELSE LET k == Min({i \in 1..Len(s) : s[i] = d})
         IN  <<SubSeq(s, 1, k - 1)>> \o Split(From(s, k + 1), d)

\* str.join
RECURSIVE Join(_, _)
Join(parts, d) ==
    IF Len(parts) = 0 THEN <<>>
    ELSE IF Len(parts) = 1 THEN parts[1]
    ELSE parts[1] \o d \o Join(Tail(parts), d)

\* All sequences over S of length at most n
SeqsUpTo(S, n) == UNION {[1..k -> S] : k \in 0..n}

-----------------------------------------------------------------------------
(* ipaddress.ip_address, as far as Rule.set_rule depends on it *)

\* value of a decimal string of at most three digits
DecVal(s) ==
    IF Len(s) = 1 THEN DigitVal(s[1])
    ELSE IF Len(s) = 2 THEN 10 * DigitVal(s[1]) + DigitVal(s[2])
    ELSE 100 * DigitVal(s[1]) + 10 * DigitVal(s[2]) + DigitVal(s[3])

IsOctet(s) ==
    /\ Len(s) >= 1
    /\ Len(s) <= 3
    /\ AllIn(s, Digit)
    /\ (Len(s) > 1 => s[1] # "0")
    /\ DecVal(s) <= 255

\* IPv4Address(s) does not raise
IsIPv4Address(s) ==
    LET octets == Split(s, ".")
    IN  /\ Len(octets) = 4
        /\ \A i \in 1..4 : IsOctet(octets[i])

IsHextet(s) == Len(s) >= 1 /\ Len(s) <= 4 /\ AllIn(s, HexDigit)

\* IPv6Address(s) does not raise (no scope id)
IsIPv6Address(s) ==
    LET parts0 == Split(s, ":")
        n0 == Len(parts0)
        hasV4 == n0 >= 1 /\ Contains(parts0[n0], <<".">>)
        parts == IF hasV4
                 THEN SubSeq(parts0, 1, n0 - 1) \o << <<"0">>, <<"0">> >>
                 ELSE parts0
        n == Len(parts)
        skips == {i \in 2..(n - 1) : parts[i] = <<>>}
        skip_index == Min(skips)
        hi0 == skip_index - 1
        lo0 == n - skip_index
        parts_hi == IF parts[1] = <<>> THEN hi0 - 1 ELSE hi0
        parts_lo == IF parts[n] = <<>> THEN lo0 - 1 ELSE lo0
    IN  /\ Len(s) > 0
        /\ n0 >= 3
        /\ hasV4 => IsIPv4Address(parts0[n0])
        /\ n <= 9
        /\ Cardinality(skips) <= 1
        /\ IF skips # {}
           THEN /\ (parts[1] = <<>> => parts_hi = 0)
                /\ (parts[n] = <<>> => parts_lo = 0)
                /\ 8 - (parts_hi + parts_lo) >= 1
                /\ \A i \in 1..parts_hi : IsHextet(parts[i])
                /\ \A i \in (n - parts_lo + 1)..n : IsHextet(parts[i])
           ELSE /\ n = 8
                /\ \A i \in 1..n : IsHextet(parts[i])

\* ip_address(s).version, or 0 when ip_address raises ValueError
IpVersion(s) ==
    IF IsIPv4Address(s) THEN 4
    ELSE IF IsIPv6Address(s) THEN 6
    ELSE 0

-----------------------------------------------------------------------------
(* class Rule *)

\* RE_REGEX_RULE = ^/(.*)/([a-z]*)$ : the greedy (.*) ends at the last "/",
\* which must not be the first character, and only [a-z] may follow it
RegexRuleSlash(s) == Max({i \in 1..Len(s) : s[i] = "/"})

MatchesRegexRule(s) ==
    /\ Len(s) >= 2
    /\ s[1] = "/"
    /\ RegexRuleSlash(s) >= 2
    /\ AllIn(From(s, RegexRuleSlash(s) + 1), Lower)

\* RE_SCHEME_RULE = ^([a-z][0-9a-z+.-]+):(.*)$ : the class has no ":", so
\* group 1 is what precedes the first ":"
SchemeChar == Digit \cup Lower \cup {"+", ".", "-"}

SchemeRuleColon(s) == Min({i \in 1..Len(s) : s[i] = ":"})

MatchesSchemeRule(s) ==
    /\ \E i \in 1..Len(s) : s[i] = ":"
    /\ SchemeRuleColon(s) >= 3
    /\ s[1] \in Lower
    /\ AllIn(SubSeq(s, 2, SchemeRuleColon(s) - 1), SchemeChar)

\* RE_DOMAIN_RULE = ^(?:[0-9a-z*-]+)(?:\.[0-9a-z*-]+)*$
DomainChar == Digit \cup Lower \cup {"*", "-"}

MatchesDomainRule(s) ==
    LET segs == Split(s, ".")
    IN  \A i \in 1..Len(segs) : Len(segs[i]) >= 1 /\ AllIn(segs[i], DomainChar)

\* The attributes of a Rule before set_rule has run; pattern, flags, scheme
\* and value exist only once a classification has set them.
NoRule == [input |-> <<>>, path |-> ".", rule |-> <<>>, sep |-> <<>>,
           comment |-> <<>>, type |-> "unset", pattern |-> <<>>,
           flags |-> <<>>, scheme |-> <<>>, value |-> <<>>]

\* set_rule with the domain test moved before the address tests
set_rule_domain_first(r, text) ==
    LET r0 == [r EXCEPT !.rule = text, !.type = "None"]
    IN  IF MatchesRegexRule(text)
        THEN [r0 EXCEPT !.type = "regex",
                        !.pattern = SubSeq(text, 2, RegexRuleSlash(text) - 1),
                        !.flags = From(text, RegexRuleSlash(text) + 1)]
        ELSE IF MatchesSchemeRule(text)
        THEN [r0 EXCEPT !.type = "scheme",
                        !.scheme = SubSeq(text, 1, SchemeRuleColon(text) - 1),
                        !.value = From(text, SchemeRuleColon(text) + 1)]
        ELSE IF MatchesDomainRule(text)
        THEN [r0 EXCEPT !.type = "domain"]
        ELSE IF Len(text) >= 1 /\ text[1] = "[" /\ text[Len(text)] = "]"
        THEN IF IpVersion(SubSeq(text, 2, Len(text) - 1)) = 6
             THEN [r0 EXCEPT !.type = "ipv6"]
             ELSE r0
        ELSE IF IpVersion(text) = 4
        THEN [r0 EXCEPT !.type = "ipv4"]
        ELSE r0

\* Rule.set_rule
set_rule(r, text) ==
    LET r0 == [r EXCEPT !.rule = text, !.type = "None"]
    IN  IF MatchesRegexRule(text)
        THEN [r0 EXCEPT !.type = "regex",
                        !.pattern = SubSeq(text, 2, RegexRuleSlash(text) - 1),
                        !.flags = From(text, RegexRuleSlash(text) + 1)]
        ELSE IF MatchesSchemeRule(text)
        THEN [r0 EXCEPT !.type = "scheme",
                        !.scheme = SubSeq(text, 1, SchemeRuleColon(text) - 1),
                        !.value = From(text, SchemeRuleColon(text) + 1)]
        ELSE IF Len(text) >= 1 /\ text[1] = "[" /\ text[Len(text)] = "]"
        THEN \* returns whether or not the interior is an IPv6 address
             IF IpVersion(SubSeq(text, 2, Len(text) - 1)) = 6
             THEN [r0 EXCEPT !.type = "ipv6"]
             ELSE r0
        ELSE IF IpVersion(text) = 4
        THEN [r0 EXCEPT !.type = "ipv4"]
        ELSE IF MatchesDomainRule(text)
        THEN [r0 EXCEPT !.type = "domain"]
        ELSE r0

\* Rule.set_rule_raw
set_rule_raw(r, text) ==
    [r EXCEPT !.rule = text, !.type = IF text # <<>> THEN "raw" ELSE "None"]

\* RE_SPACE_MATCHER = ^(\S*)(\s*)(.*)$ on a line without "\n": group 1 ends
\* before the first whitespace, group 2 before the next non-whitespace
SpaceMatcherEnd1(s) ==
    Min({i \in 1..Len(s) : IsSpace(s[i])} \cup {Len(s) + 1})

SpaceMatcherEnd2(s) ==
    Min({i \in SpaceMatcherEnd1(s)..Len(s) : ~IsSpace(s[i])} \cup {Len(s) + 1})

\* Rule.__init__ with the separator collapsed to the empty string, as if
\* the whitespace group were not captured
NewRule_no_sep(text, path) ==
    LET e1 == SpaceMatcherEnd1(text)
        e2 == SpaceMatcherEnd2(text)
        r  == set_rule([NoRule EXCEPT !.input = text, !.path = path],
                       SubSeq(text, 1, e1 - 1))
    IN  [r EXCEPT !.sep = <<>>,
                  !.comment = From(text, e2)]

\* Rule.__init__
NewRule(text, path) ==
    LET e1 == SpaceMatcherEnd1(text)
        e2 == SpaceMatcherEnd2(text)
        r  == set_rule([NoRule EXCEPT !.input = text, !.path = path],
                       SubSeq(text, 1, e1 - 1))
    IN  [r EXCEPT !.sep = SubSeq(text, e1, e2 - 1),
                  !.comment = From(text, e2)]

\* what Converter.print_rule and the Linter write for a rule
RuleLine(r) == r.rule \o r.sep \o r.comment

-----------------------------------------------------------------------------
(* class Converter: processors *)

\* regex.sub(repl, s) for a pattern that is a non-empty literal p and a
\* replacement without group references: the leftmost non-overlapping
\* occurrences are replaced
RECURSIVE ReplaceAll(_, _, _)
ReplaceAll(s, p, repl) ==
    IF ~Contains(s, p) THEN s
    ELSE LET k == Min({i \in 1..Len(s) : OccursAt(s, p, i)})
         IN  SubSeq(s, 1, k - 1) \o repl
               \o ReplaceAll(From(s, k + Len(p)), p, repl)

\* the text a processor assigns: lines 463-464
processor_new_rule(processor, text) ==
    IF processor.pattern = None
    THEN processor.replacement
    ELSE ReplaceAll(text, processor.pattern, processor.replacement)

\* lines 466-470
apply_processor(r, processor) ==
    IF processor.mode = "raw"
    THEN set_rule_raw(r, processor_new_rule(processor, r.rule))
    ELSE set_rule(r, processor_new_rule(processor, r.rule))

\* the conditions under which the loop body does not "continue"
processor_matches(r, processor) ==
    /\ processor.type \in {r.type, "None"}
    /\ IF processor.find # None
       THEN Contains(r.rule, processor.find)
       ELSE IF processor.pattern # None
       THEN Contains(r.rule, processor.pattern)
       ELSE TRUE

\* Converter.process_rule with every matching processor applied in turn
\* (the "return" after the first application left out)
RECURSIVE process_rule_fold(_, _)
process_rule_fold(r, processors) ==
    IF processors = <<>> THEN r
    ELSE IF processor_matches(r, Head(processors))
    THEN process_rule_fold(apply_processor(r, Head(processors)),
                           Tail(processors))
    ELSE process_rule_fold(r, Tail(processors))

\* Converter.process_rule: the for loop, with its continue and its return
RECURSIVE process_rule(_, _)
process_rule(r, processors) ==
    IF processors = <<>> THEN r
    ELSE IF processor_matches(r, Head(processors))
    THEN apply_processor(r, Head(processors))
    ELSE process_rule(r, Tail(processors))

-----------------------------------------------------------------------------
(* class Converter: scheme handling *)

\* re.escape: the characters it prefixes with a backslash
RegexSpecial == {"(", ")", "[", "]", "{", "}", "?", "*", "+", "-", "|", "^",
                 "$", "\\", ".", "&", "~", "#", " ", "\t"}

RECURSIVE escape_regex(_)
escape_regex(value) ==
    IF value = <<>> THEN <<>>
    ELSE (IF Head(value) \in RegexSpecial
          THEN <<"\\", Head(value)>> ELSE <<Head(value)>>)
         \o escape_regex(Tail(value))

\* urllib.parse.quote: letters, digits and "_.-~/" are kept, any other
\* character becomes its percent escape
UrlSafe == Lower \cup Digit \cup {"_", ".", "-", "~", "/"}
              \cup {"A","B","C","D","E","F","G","H","I","J","K","L","M",
                    "N","O","P","Q","R","S","T","U","V","W","X","Y","Z"}

PercentEscape(c) ==
    CASE c = ":" -> <<"%", "3", "A">>
      [] c = "*" -> <<"%", "2", "A">>
      [] c = "@" -> <<"%", "4", "0">>
      [] c = "[" -> <<"%", "5", "B">>
      [] c = "]" -> <<"%", "5", "D">>
      [] c = "#" -> <<"%", "2", "3">>
      [] c = "!" -> <<"%", "2", "1">>
      [] c = "," -> <<"%", "2", "C">>

RECURSIVE escape_url(_)
escape_url(value) ==
    IF value = <<>> THEN <<>>
    ELSE (IF Head(value) \in UrlSafe
          THEN <<Head(value)>> ELSE PercentEscape(Head(value)))
         \o escape_url(Tail(value))

\* the loop over scheme.get('escape', '').split(','), the names already
\* stripped and the empty ones skipped; an undefined escaper is a no-op
RECURSIVE apply_escapers(_, _)
apply_escapers(value, escapers) ==
    IF escapers = <<>> THEN value
    ELSE apply_escapers(
            CASE Head(escapers) = "regex" -> escape_regex(value)
              [] Head(escapers) = "url"   -> escape_url(value)
              [] OTHER                    -> value,
            Tail(escapers))

\* scheme_value.format(value=value): the template is a sequence of
\* characters and "{value}" fields
RECURSIVE Format(_, _)
Format(template, value) ==
    IF template = <<>> THEN <<>>
    ELSE (IF Head(template) = "{value}" THEN value ELSE <<Head(template)>>)
         \o Format(Tail(template), value)

\* scheme_groups.setdefault(name, []).append(item) on a mapping that puts a
\* new key first instead of last
groups_append_front(groups, name, item) ==
    IF \E i \in 1..Len(groups) : groups[i].scheme = name
    THEN [i \in 1..Len(groups) |->
            IF groups[i].scheme = name
            THEN [groups[i] EXCEPT !.items = Append(@, item)]
            ELSE groups[i]]
    ELSE <<[scheme |-> name, items |-> <<item>>]>> \o groups

\* scheme_groups.setdefault(name, []).append(item)
groups_append(groups, name, item) ==
    IF \E i \in 1..Len(groups) : groups[i].scheme = name
    THEN [i \in 1..Len(groups) |->
            IF groups[i].scheme = name
            THEN [groups[i] EXCEPT !.items = Append(@, item)]
            ELSE groups[i]]
    ELSE Append(groups, [scheme |-> name, items |-> <<item>>])

\* Converter.handle_scheme_rule; the result is the rule and scheme_groups
\* as the call leaves them.  line is the number of the input line, kept with
\* the buffered item.
handle_scheme_rule(r, groups, schemes, line) ==
    LET unchanged == [rule |-> r, groups |-> groups]
    IN  IF r.scheme \notin DOMAIN schemes THEN unchanged
        ELSE IF r.value = <<>> THEN unchanged
        ELSE
        LET scheme  == schemes[r.scheme]
            escaped == apply_escapers(r.value, scheme.escape)
            value   == Format(scheme.value, escaped)
        IN  IF scheme.grouping \notin {None, <<>>}
            THEN [rule |-> r,
                  groups |-> groups_append(groups, r.scheme,
                                [value |-> escaped, rule |-> r.rule,
                                 line |-> line])]
            ELSE IF scheme.max # NoMax /\ Len(value) > scheme.max
            THEN unchanged
            ELSE IF scheme.mode = "raw"
            THEN [rule |-> set_rule_raw(r, value), groups |-> groups]
            ELSE [rule |-> set_rule(r, value), groups |-> groups]

-----------------------------------------------------------------------------
(* The Converter subclasses: allow_schemes, print_headers, print_rule *)

Emitters == {"Converter", "ConverterCft", "ConverterHosts", "ConverterUbo",
             "ConverterUblacklist"}

allow_schemes(e) == e # "ConverterHosts"

\* the prefix print_headers puts before each header line
header_prefix(e) ==
    CASE e = "ConverterCft" -> <<" ", " ", "#", " ">>
      [] e = "ConverterUbo" -> <<"!", " ">>
      [] OTHER              -> <<"#", " ">>

\* print_headers: info.headers is NoHeaders (no 'headers' key) or the lines
\* of the formatted banner
NoHeaders == <<None>>

print_headers(e, headers) ==
    IF headers = NoHeaders THEN <<>>
    ELSE [i \in 1..Len(headers) |-> header_prefix(e) \o headers[i]]

\* re.sub(r'^\s*(?://|#)', '', comment)
strip_comment_marker(comment) ==
    LET k == Min({i \in 1..Len(comment) : ~IsSpace(comment[i])}
                 \cup {Len(comment) + 1})
    IN  IF OccursAt(comment, <<"/", "/">>, k) THEN From(comment, k + 2)
        ELSE IF OccursAt(comment, <<"#">>, k) THEN From(comment, k + 1)
        ELSE comment

\* '  #' + re.sub(...) if rule.comment else ''
output_comment(r) ==
    IF r.comment = <<>> THEN <<>>
    ELSE <<" ", " ", "#">> \o strip_comment_marker(r.comment)

\* escape_regex_slash: RE_REGEX_SLASH_ESCAPER = (\\.)|/
RECURSIVE escape_regex_slash(_)
escape_regex_slash(text) ==
    IF text = <<>> THEN <<>>
    ELSE IF Head(text) = "\\" /\ Len(text) >= 2
    THEN <<text[1], text[2]>> \o escape_regex_slash(From(text, 3))
    ELSE IF Head(text) = "/"
    THEN <<"\\", "/">> \o escape_regex_slash(Tail(text))
    ELSE <<Head(text)>> \o escape_regex_slash(Tail(text))

\* the lines print_rule of emitter e prints for rule r (none or one)
print_rule(e, r) ==
    CASE e = "Converter" -> <<RuleLine(r)>>
      [] e = "ConverterCft" ->
            IF r.type = "None" /\ r.rule # <<>> THEN <<>>
            ELSE <<RuleLine(r)>>
      [] e = "ConverterHosts" ->
            IF \/ r.type = "domain" /\ ~Contains(r.rule, <<"*">>)
               \/ r.type = "raw"
            THEN <<<<"1", "2", "7", ".", "0", ".", "0", ".", "1", " ">> \o r.rule \o output_comment(r)>>
            ELSE <<>>
      [] e = "ConverterUbo" ->
            IF r.type = "regex"
            THEN <<r.rule \o <<"$", "d", "o", "c", "u", "m", "e", "n", "t">>>>
            ELSE IF r.type \in {"domain", "ipv4", "ipv6"}
            THEN IF Contains(r.rule, <<"*">>)
                 THEN <<<<"|", "|">> \o r.rule \o <<"^", "$", "d", "o", "c", "u", "m", "e", "n", "t">>>>
                 ELSE <<<<"|", "|">> \o r.rule \o <<"^">>>>
            ELSE IF r.type = "raw" THEN <<r.rule>>
            ELSE <<>>
      [] e = "ConverterUblacklist" ->
            IF r.type = "regex"
            THEN <<<<"/">> \o escape_regex_slash(r.pattern) \o <<"/">>
                   \o r.flags \o output_comment(r)>>
            ELSE IF r.type \in {"ipv4", "ipv6"}
            THEN <<<<"*", ":", "/", "/">> \o r.rule \o <<"/", "*">>
                   \o output_comment(r)>>
            ELSE IF r.type = "domain"
            THEN IF Contains(r.rule, <<"*">>)
                 THEN <<<<"/", "h", "t", "t", "p", "s", "?", ":", "\\", "/", "\\", "/", "(", "?", ":", "[", "\\", "w", "-", "]", "+", "\\", ".", ")", "*", "(", "?", ":">>
                        \o ReplaceAll(escape_regex(r.rule), <<"\\", "*">>,
                                      <<"[", "\\", "w", ".", "-", "]", "*">>)
                        \o <<")", "(", "?", "=", "[", ":", "\\", "/", "?", "#", "]", "|", "$", ")", "/">>
                        \o output_comment(r)>>
                 ELSE <<<<"*", ":", "/", "/", "*", ".">> \o r.rule \o <<"/", "*">>
                        \o output_comment(r)>>
            ELSE IF r.type = "raw" THEN <<r.rule \o output_comment(r)>>
            ELSE <<>>

-----------------------------------------------------------------------------
(* Converter.run and handle_grouping_scheme_rules, step by step *)

\* A printed line, with the place it comes from: a header, the input line
\* of a rule (line), or the flush of a scheme's group (scheme).
Printed(lines, kind, line, scheme) ==
    [i \in 1..Len(lines) |->
        [text |-> lines[i], kind |-> kind, line |-> line, scheme |-> scheme]]

NoStep == [line |-> <<>>, rule0 |-> NoRule, rule1 |-> NoRule,
           rule2 |-> NoRule, processed |-> FALSE, schemed |-> FALSE,
           printed |-> FALSE]

\* the locals of handle_grouping_scheme_rules before its loop starts; log
\* keeps the results of the bsearch calls for the current scheme and flushed
\* the names of the schemes whose outputs have been printed
NoFlush == [idx |-> 0, items |-> <<>>, outputs |-> <<>>, pos |-> 0,
            value |-> <<>>, pos_min |-> 0, pos_max |-> 0, log |-> <<>>,
            flushed |-> <<>>]

\* self.print_headers(), line 418
PrintHeaders ==
    /\ pc = "start"
    /\ stdout' = stdout \o Printed(print_headers(emitter, info.headers),
                                   "header", 0, <<>>)
    /\ pc' = "loop"
    /\ UNCHANGED <<input, rule, info, emitter, line_no, scheme_groups, step,
                   flush, aggVars>>

\* lines 442 and 421: the iteration ends; rule2 is the rule as the scheme
\* handling left it and groups the buffers
LoopEnd(text, rule0, rule1, rule2, groups, processed, schemed) ==
    /\ scheme_groups' = groups
    /\ stdout' = IF processed /\ ~(schemed /\ rule2.type = "scheme")
                 THEN stdout \o Printed(print_rule(emitter, rule2),
                                        "rule", line_no + 1, <<>>)
                 ELSE stdout
    /\ step' = [line |-> text, rule0 |-> rule0, rule1 |-> rule1,
                rule2 |-> rule2, processed |-> processed,
                schemed |-> schemed,
                printed |-> processed /\ ~(schemed /\ rule2.type = "scheme")]

\* lines 432-440: the scheme handling of the processed rule rule1
LoopSchemes(text, rule0, rule1, handled) ==
    IF allow_schemes(emitter) /\ rule1.type = "scheme"
    THEN LoopEnd(text, rule0, rule1, handled.rule, handled.groups, TRUE, TRUE)
    ELSE LoopEnd(text, rule0, rule1, rule1, scheme_groups, TRUE, FALSE)

\* lines 425-430: an empty rule is skipped, any other is processed
LoopRule(text, rule0) ==
    IF rule0.type = "None"
    THEN LoopEnd(text, rule0, rule0, rule0, scheme_groups, FALSE, FALSE)
    ELSE LoopSchemes(text, rule0, process_rule(rule0, info.processors),
                     handle_scheme_rule(
                        process_rule(rule0, info.processors),
                        scheme_groups, info.schemes, line_no + 1))

\* one iteration of "for line in self.fh" on the line text, lines 421-442
LoopBody(text) == LoopRule(text, NewRule(text, "."))

\* get_joined_value(pos) for the scheme configuration scheme
get_joined_value(items, pos, scheme) ==
    Format(scheme.value,
           Join([i \in 1..pos |-> items[i].value], scheme.grouping))

\* the scheme configuration of the group the flush is at
flush_scheme(f) == info.schemes[scheme_groups[f.idx].scheme]

\* lines 559-565 with the slice after an emitted line taken one item late
\* (items[pos + 1:] for items[pos:])
after_bsearch_skip(f, pos, value) ==
    IF pos > 0
    THEN [f EXCEPT !.outputs = Append(@, value),
                   !.items = From(@, pos + 2),
                   !.log = Append(@, [pos |-> pos, value |-> value]),
                   !.pos = pos, !.value = value]
    ELSE [f EXCEPT !.items = From(@, 2),
                   !.log = Append(@, [pos |-> 0, value |-> value]),
                   !.pos = pos, !.value = value]

\* lines 559-565: what the packing loop does with the result of bsearch
after_bsearch(f, pos, value) ==
    IF pos > 0
    THEN [f EXCEPT !.outputs = Append(@, value),
                   !.items = From(@, pos + 1),
                   !.log = Append(@, [pos |-> pos, value |-> value]),
                   !.pos = pos, !.value = value]
    ELSE [f EXCEPT !.items = From(@, 2),
                   !.log = Append(@, [pos |-> 0, value |-> value]),
                   !.pos = pos, !.value = value]

\* lines 567-574: the rules made of the outputs, through print_rule
RECURSIVE print_outputs(_, _, _)
print_outputs(e, outputs, mode) ==
    IF outputs = <<>> THEN <<>>
    ELSE LET r == IF mode = "raw"
                  THEN set_rule_raw(NewRule(<<>>, "."), Head(outputs))
                  ELSE set_rule(NewRule(<<>>, "."), Head(outputs))
         IN  print_rule(e, r) \o print_outputs(e, Tail(outputs), mode)

\* the input is exhausted: handle_grouping_scheme_rules is called, line 444
EndOfFile ==
    /\ pc = "loop"
    /\ pc' = "groups"
    /\ flush' = NoFlush
    /\ UNCHANGED <<input, rule, info, emitter, line_no, scheme_groups, stdout,
                   step, aggVars>>

\* "for scheme_name, items in scheme_groups.items()", lines 548-556
NextGroup ==
    /\ pc = "groups"
    /\ IF flush.idx = Len(scheme_groups)
       THEN /\ pc' = "done"
            /\ flush' = flush
       ELSE LET idx == flush.idx + 1
                items == scheme_groups[idx].items
                scheme == info.schemes[scheme_groups[idx].scheme]
                f == [flush EXCEPT !.idx = idx, !.items = items,
                                   !.outputs = <<>>, !.log = <<>>]
            IN  IF scheme.max = NoMax
                THEN /\ flush' = [f EXCEPT !.outputs =
                           <<get_joined_value(items, Len(items), scheme)>>]
                     /\ pc' = "print"
                ELSE /\ flush' = f
                     /\ pc' = "pack"
    /\ UNCHANGED <<input, rule, info, emitter, line_no, scheme_groups, stdout,
                   step, aggVars>>

\* "while items:" and the call of bsearch up to its loop, lines 558-537
PackLoop ==
    /\ pc = "pack"
    /\ IF flush.items = <<>>
       THEN /\ pc' = "print"
            /\ flush' = flush
       ELSE LET pos == Len(flush.items)
                value == get_joined_value(flush.items, pos,
                                          flush_scheme(flush))
            IN  IF Len(value) <= flush_scheme(flush).max
                THEN /\ flush' = after_bsearch(flush, pos, value)
                     /\ pc' = "pack"
                ELSE /\ flush' = [flush EXCEPT !.pos = pos, !.value = value,
                                               !.pos_max = pos - 1,
                                               !.pos_min = 0]
                     /\ pc' = "bsearch"
    /\ UNCHANGED <<input, rule, info, emitter, line_no, scheme_groups, stdout,
                   step, aggVars>>

\* one iteration of "while pos_min <= pos_max", lines 538-544
BsearchStep ==
    /\ pc = "bsearch"
    /\ flush.pos_min <= flush.pos_max
    /\ LET pos == flush.pos_min + (flush.pos_max - flush.pos_min) \div 2
           value == get_joined_value(flush.items, pos, flush_scheme(flush))
       IN  flush' = IF Len(value) <= flush_scheme(flush).max
                    THEN [flush EXCEPT !.pos = pos, !.value = value,
                                       !.pos_min = pos + 1]
                    ELSE [flush EXCEPT !.pos = pos, !.value = value,
                                       !.pos_max = pos - 1]
    /\ UNCHANGED <<input, rule, info, emitter, pc, line_no, scheme_groups,
                   stdout, step, aggVars>>

\* "return pos, value" of bsearch and the rest of the packing loop's body,
\* lines 545 and 559-565
BsearchReturn ==
    /\ pc = "bsearch"
    /\ flush.pos_min > flush.pos_max
    /\ flush' = after_bsearch(flush, flush.pos, flush.value)
    /\ pc' = "pack"
    /\ UNCHANGED <<input, rule, info, emitter, line_no, scheme_groups, stdout,
                   step, aggVars>>

\* "for output in outputs", lines 567-574
PrintOutputs ==
    /\ pc = "print"
    /\ stdout' = stdout \o
          Printed(print_outputs(emitter, flush.outputs,
                                flush_scheme(flush).mode),
                  "group", 0, scheme_groups[flush.idx].scheme)
    /\ flush' = [flush EXCEPT !.flushed =
                                Append(@, scheme_groups[flush.idx].scheme)]
    /\ pc' = "groups"
    /\ UNCHANGED <<input, rule, info, emitter, line_no, scheme_groups, step,
                   aggVars>>

-----------------------------------------------------------------------------
(* Bounds and input sets *)

MaxLineLen == 3     \* length of the exhaustively enumerated lines

\* characters of the exhaustively enumerated lines
LineChars == {"a", "1", ".", ":", "/", "[", "]", "*", " ", "#"}

\* longer lines: an address or a name, wrapped as a regex, a scheme rule or
\* a bracketed literal, followed or not by a comment
Cores == { <<"1",".","2",".","3",".","4">>,
           <<"2","5","6",".","1",".","1",".","1">>,
           <<"0","1",".","2",".","3",".","4">>,
           <<"1",".","2",".","3">>,
           <<":",":","1">>,
           <<"1",":",":">>,
           <<"a","b",":",":","1">>,
           <<"1",":","2",":","3",":","4",":","5",":","6",":","7",":","8">>,
           <<":",":","1",".","2",".","3",".","4">>,
           <<"1",":",":","2",":",":","3">>,
           <<"*",".","a",".","b">>,
           <<"a","-","b",".","c">>,
           <<"A",".","b">>,
           <<"a",".",".","b">> }
Prefixes == { <<>>, <<"/">>, <<"[">>, <<"a","b",":">>, <<"a",":">> }
Suffixes == { <<>>, <<"/">>, <<"/","i">>, <<"/","I">>, <<"]">> }
Trailers == { <<>>, <<" ","#","c">>, <<"\t"," ","#"," ","c"," ">> }

RuleInputs ==
    SeqsUpTo(LineChars, MaxLineLen)
    \cup {p \o c \o s \o t : p \in Prefixes, c \in Cores, s \in Suffixes,
                              t \in Trailers}

\* texts a processor or a scheme handler assigns to an existing rule
SetTexts == { <<>>, <<"a",".","b">>, <<"1",".","2",".","3",".","4">>,
              <<"[",":",":","1","]">>, <<"[","1",".","2",".","3",".","4","]">>,
              <<"/","a","/">>, <<"a","b",":","x">>, <<"a"," ","b">> }

-----------------------------------------------------------------------------
(* Specification of the Rule class: a line is parsed, then reassigned *)

ConvIdle ==
    /\ info = <<>>
    /\ emitter = "None"
    /\ line_no = 0
    /\ scheme_groups = <<>>
    /\ stdout = <<>>
    /\ step = <<>>
    /\ flush = <<>>

AggIdle ==
    /\ config = <<>>
    /\ files = <<>>
    /\ task_no = 0
    /\ runs = 0
    /\ last = <<>>

InitRule ==
    /\ input \in RuleInputs
    /\ rule = NoRule
    /\ pc = "new"
    /\ ConvIdle
    /\ AggIdle

\* rule = Rule(input)
Construct ==
    /\ pc = "new"
    /\ rule' = NewRule(input, ".")
    /\ pc' = "constructed"
    /\ UNCHANGED <<input, info, emitter, line_no, scheme_groups, stdout, step,
                   flush, aggVars>>

\* rule.set_rule(text)
SetRule ==
    /\ pc = "constructed"
    /\ \E text \in SetTexts : rule' = set_rule(rule, text)
    /\ pc' = "set_rule"
    /\ UNCHANGED <<input, info, emitter, line_no, scheme_groups, stdout, step,
                   flush, aggVars>>

\* rule.set_rule_raw(text)
SetRuleRaw ==
    /\ pc = "constructed"
    /\ \E text \in SetTexts : rule' = set_rule_raw(rule, text)
    /\ pc' = "set_rule_raw"
    /\ UNCHANGED <<input, info, emitter, line_no, scheme_groups, stdout, step,
                   flush, aggVars>>

NextRule == Construct \/ SetRule \/ SetRuleRaw

SpecRule == InitRule /\ [][NextRule]_vars

-----------------------------------------------------------------------------
(* C6 *)

\* the surface patterns of the kinds, in precedence order
SurfaceKinds == <<"regex", "scheme", "ipv6", "ipv4", "domain">>

MatchesSurface(kind, text) ==
    CASE kind = "regex"  -> MatchesRegexRule(text)
      [] kind = "scheme" -> MatchesSchemeRule(text)
      [] kind = "ipv6"   -> /\ Len(text) >= 2
                            /\ text[1] = "["
                            /\ text[Len(text)] = "]"
                            /\ IsIPv6Address(SubSeq(text, 2, Len(text) - 1))
      [] kind = "ipv4"   -> IsIPv4Address(text)
      [] kind = "domain" -> MatchesDomainRule(text)

MatchingKinds(text) == {k \in 1..5 : MatchesSurface(SurfaceKinds[k], text)}

\* C6: whenever set_rule has classified a value, the rule's kind is the
\* first of regex, scheme, ipv6, ipv4, domain whose surface pattern the value
\* matches, and none ("None") when the value matches no pattern.
C6_FirstMatchingKind ==
    pc \in {"constructed", "set_rule"} =>
        rule.type = IF MatchingKinds(rule.rule) = {}
                    THEN "None"
                    ELSE SurfaceKinds[Min(MatchingKinds(rule.rule))]

\* a classified value that matches two surface patterns (ipv4 and domain)
C6_Witness ==
    /\ pc = "constructed"
    /\ Cardinality(MatchingKinds(rule.rule)) >= 2
    /\ rule.type = "ipv4"

-----------------------------------------------------------------------------
(* C7 *)

\* C7: a Rule constructed from a line and not modified since satisfies
\* value + separator + comment = the line.
C7_RoundTrip ==
    pc = "constructed" => RuleLine(rule) = input

\* a constructed rule with leading whitespace, an empty value and a comment
C7_Witness ==
    /\ pc = "constructed"
    /\ rule.rule = <<>>
    /\ rule.sep # <<>>
    /\ rule.comment # <<>>

-----------------------------------------------------------------------------
(* Specification of a conversion task: Converter.run *)

MaxLines == 3       \* number of lines of the source file

\* the lines a source file is made of
ConvLines == { <<>>,
               <<"a", ".", "b">>,
               <<"*", ".", "a", " ", "#", "c">>,
               <<"!", "!">>,
               <<"a", "b", ":", "x">>,
               <<"a", "b", ":", "y", "y", "y", "y">>,
               <<"c", "d", ":", "z">>,
               <<"e", "f", ":", "w">>,
               <<"e", "f", ":">>,
               <<"g", "h", ":", "v">>,
               <<"/", "r", "/", "i">> }

Scheme(escape, grouping, value, max, mode) ==
    [escape |-> escape, grouping |-> grouping, value |-> value, max |-> max,
     mode |-> mode]

Processor(type, find, pattern, replacement, mode) ==
    [type |-> type, find |-> find, pattern |-> pattern,
     replacement |-> replacement, mode |-> mode]

\* info['schemes']: two grouping schemes and a plain one
SchemesA ==
    (<<"a", "b">> :> Scheme(<<>>, <<",">>, <<"{value}">>, 3, "raw"))
    @@ (<<"c", "d">> :> Scheme(<<"regex">>, <<",", " ">>,
                        <<"c", ":", "{value}">>, NoMax, "None"))
    @@ (<<"e", "f">> :> Scheme(<<"url">>, None, <<"{value}">>, NoMax, "None"))

\* a grouping scheme, a plain one whose output is again a scheme rule, and
\* a plain one whose output exceeds its max
SchemesB ==
    (<<"a", "b">> :> Scheme(<<>>, <<",">>, <<"{value}">>, 5, "None"))
    @@ (<<"c", "d">> :> Scheme(<<>>, <<>>, <<"c", "d", ":", "{value}">>, NoMax,
                        "None"))
    @@ (<<"e", "f">> :> Scheme(<<>>, None, <<"{value}", "{value}">>, 1, "raw"))

\* a grouping scheme in which nothing fits and a plain raw one
SchemesC ==
    (<<"a", "b">> :> Scheme(<<>>, <<",">>, <<"{value}">>, 0, "raw"))
    @@ (<<"e", "f">> :> Scheme(<<"regex", "bogus">>, None,
                        <<"e", "=", "{value}">>, 9, "raw"))

\* info['processors']
Processors0 == <<>>
Processors1 ==
    << Processor("None", <<"a">>, None, <<"b", ".", "c">>, "None"),
       Processor("None", <<"b">>, None, <<"x", ".", "y">>, "None") >>
Processors2 ==
    << Processor("domain", None, <<"a">>, <<"e", "f", ":", "w">>, "None"),
       Processor("regex", None, None, <<"r", "a", "w", "!">>, "raw") >>
Processors3 ==
    << Processor("None", <<"b">>, <<"a">>, <<"c">>, "None"),
       Processor("scheme", None, <<":">>, <<>>, "None") >>

ProcessorSets == {Processors0, Processors1, Processors2, Processors3}

Headers == << <<"h">> >>

Task(e, headers, processors, schemes) ==
    [emitter |-> e,
     info |-> [headers |-> headers, processors |-> processors,
               schemes |-> schemes]]

\* the conversion tasks: every subclass with one configuration, the base
\* class and ConverterCft with every scheme configuration, and the base
\* class with every list of processors
Tasks ==
    {Task(e, Headers, Processors0, SchemesA) : e \in Emitters}
    \cup {Task(e, NoHeaders, Processors0, s) :
            e \in {"Converter", "ConverterCft"}, s \in {SchemesB, SchemesC}}
    \cup {Task("Converter", NoHeaders, p, SchemesA) :
            p \in ProcessorSets \ {Processors0}}
    \cup {Task("ConverterCft", NoHeaders, Processors2, SchemesB)}

InitConvert ==
    /\ input = <<>>
    /\ rule = NoRule
    /\ \E task \in Tasks :
         /\ emitter = task.emitter
         /\ info = task.info
    /\ pc = "start"
    /\ line_no = 0
    /\ scheme_groups = <<>>
    /\ stdout = <<>>
    /\ step = NoStep
    /\ flush = NoFlush
    /\ AggIdle

\* the loop of Converter.run takes the next line of the file
LoopStep ==
    /\ pc = "loop"
    /\ line_no < MaxLines
    /\ \E text \in ConvLines : LoopBody(text)
    /\ line_no' = line_no + 1
    /\ UNCHANGED <<input, rule, info, emitter, pc, flush, aggVars>>

NextConvert ==
    \/ PrintHeaders
    \/ LoopStep
    \/ EndOfFile
    \/ NextGroup
    \/ PackLoop
    \/ BsearchStep
    \/ BsearchReturn
    \/ PrintOutputs

SpecConvert == InitConvert /\ [][NextConvert]_vars

-----------------------------------------------------------------------------
(* Specification of the group flush alone: handle_grouping_scheme_rules    *)
(* entered with one buffered scheme, as Converter.run leaves it after      *)
(* reading the lines "ab:<value>" of a file                                *)

MaxItems == 4       \* number of buffered items
MaxMax == 6         \* largest configured max

\* the remainders of the buffered rules
ItemValues == { <<"x">>, <<"y", "y">>, <<"z", "z", "z">> }

FlushSeparators == { <<",">>, <<",", " ">> }

\* 'value' of the scheme: the placeholder alone, with a prefix, and absent
FlushTemplates == { <<"{value}">>, <<"m", ":", "{value}">>, <<>> }

\* the buffer scheme_groups holds after the lines "ab:" + values[i]
BufferOf(values) ==
    IF values = <<>> THEN <<>>
    ELSE << [scheme |-> <<"a", "b">>,
             items |-> [i \in 1..Len(values) |->
                          [value |-> values[i],
                           rule |-> <<"a", "b", ":">> \o values[i],
                           line |-> i]]] >>

InitFlush ==
    /\ input = <<>>
    /\ rule = NoRule
    /\ emitter = "Converter"
    /\ \E sep \in FlushSeparators, template \in FlushTemplates,
          max \in (0..MaxMax) \cup {NoMax}, mode \in {"raw", "None"} :
         info = [headers |-> NoHeaders, processors |-> <<>>,
                 schemes |-> (<<"a", "b">> :>
                                Scheme(<<>>, sep, template, max, mode))]
    /\ \E values \in SeqsUpTo(ItemValues, MaxItems) :
         /\ scheme_groups = BufferOf(values)
         /\ line_no = Len(values)
    /\ pc = "groups"
    /\ stdout = <<>>
    /\ step = NoStep
    /\ flush = NoFlush
    /\ AggIdle

NextFlush ==
    \/ NextGroup
    \/ PackLoop
    \/ BsearchStep
    \/ BsearchReturn
    \/ PrintOutputs

SpecFlush == InitFlush /\ [][NextFlush]_vars

-----------------------------------------------------------------------------
(* C1 *)

\* the flush is at a scheme that has a max
FlushHasMax ==
    /\ pc \in {"pack", "bsearch", "print"}
    /\ flush_scheme(flush).max # NoMax

\* C1: for a scheme with a configured max, every line the group flush emits
\* has a rendered length of at most max.
C1_LinesWithinMax ==
    FlushHasMax =>
        \A i \in 1..Len(flush.outputs) :
            Len(flush.outputs[i]) <= flush_scheme(flush).max

-----------------------------------------------------------------------------
(* C2 *)

\* the number of buffered items the first k results of bsearch account for:
\* pos items when a line was emitted, one when an item was dropped
RECURSIVE Consumed(_, _)
Consumed(log, k) ==
    IF k = 0 THEN 0
    ELSE Consumed(log, k - 1) + (IF log[k].pos > 0 THEN log[k].pos ELSE 1)

\* the values of the emitted lines among the results, in order
RECURSIVE EmittedValues(_)
EmittedValues(log) ==
    IF log = <<>> THEN <<>>
    ELSE (IF Head(log).pos > 0 THEN <<Head(log).value>> ELSE <<>>)
         \o EmittedValues(Tail(log))

\* C2: with a finite max, the emitted lines and the dropped items, taken in
\* the order they are produced, are consecutive slices of the buffer that
\* start at its first item, followed by the items not yet handled; each
\* line is the rendering of its slice, the outputs are exactly these lines,
\* and a dropped item does not fit within max alone.  When the packing loop
\* has ended nothing is left, so the slices partition the buffer.
C2_BufferPartitioned ==
    (pc \in {"pack", "print"} /\ flush_scheme(flush).max # NoMax) =>
        LET buf == scheme_groups[flush.idx].items
            log == flush.log
            scheme == flush_scheme(flush)
            slice(k) == SubSeq(buf, Consumed(log, k - 1) + 1, Consumed(log, k))
        IN  /\ Consumed(log, Len(log)) <= Len(buf)
            /\ flush.items = From(buf, Consumed(log, Len(log)) + 1)
            /\ pc = "print" => Consumed(log, Len(log)) = Len(buf)
            /\ flush.outputs = EmittedValues(log)
            /\ \A k \in 1..Len(log) :
                 IF log[k].pos > 0
                 THEN log[k].value =
                        get_joined_value(slice(k), Len(slice(k)), scheme)
                 ELSE Len(get_joined_value(slice(k), 1, scheme)) > scheme.max

\* the packing loop has ended after emitting two lines and dropping an item
C2_Witness ==
    /\ pc = "print"
    /\ flush_scheme(flush).max # NoMax
    /\ Len(flush.outputs) >= 2
    /\ \E k \in 1..Len(flush.log) : flush.log[k].pos = 0

-----------------------------------------------------------------------------
(* C8 *)

\* the input line at which a scheme was first buffered
FirstBuffered(name) ==
    LET i == CHOOSE i \in 1..Len(scheme_groups) :
                scheme_groups[i].scheme = name
    IN  scheme_groups[i].items[1].line

\* the number of times a scheme's buffer has been flushed
TimesFlushed(name) ==
    Cardinality({i \in 1..Len(flush.flushed) : flush.flushed[i] = name})

\* C8: the lines printed for non-grouped rules are in the order of their
\* input lines; no line of a non-grouped rule comes after a line of the
\* group flush; the group lines of different schemes are in the order in
\* which the schemes were first buffered; no buffer is flushed twice, and
\* at the end of the task every buffer has been flushed once.
C8_OutputOrder ==
    /\ \A i, j \in 1..Len(stdout) :
         (i < j /\ stdout[i].kind = "rule" /\ stdout[j].kind = "rule")
            => stdout[i].line < stdout[j].line
    /\ \A i, j \in 1..Len(stdout) :
         (stdout[i].kind = "group" /\ stdout[j].kind = "rule") => j < i
    /\ \A i, j \in 1..Len(stdout) :
         (i < j /\ stdout[i].kind = "group" /\ stdout[j].kind = "group")
            => FirstBuffered(stdout[i].scheme)
                 <= FirstBuffered(stdout[j].scheme)
    /\ \A g \in 1..Len(scheme_groups) :
         /\ TimesFlushed(scheme_groups[g].scheme) <= 1
         /\ pc = "done" => TimesFlushed(scheme_groups[g].scheme) = 1

\* a finished task that printed a rule read after a rule was buffered, and
\* then the group lines of two schemes
C8_Witness ==
    /\ pc = "done"
    /\ \E i, j, k \in 1..Len(stdout) :
         /\ stdout[i].kind = "rule"
         /\ stdout[j].kind = "group"
         /\ stdout[k].kind = "group"
         /\ stdout[j].scheme # stdout[k].scheme
         /\ FirstBuffered(stdout[j].scheme) < stdout[i].line

-----------------------------------------------------------------------------
(* C9 *)

\* the condition of the claim for a processor to be the one applied: its
\* type filter is absent or is the rule's kind, and its match condition
\* (find, else pattern, else always) holds on the rule's value
C9_Selects(processor, r) ==
    /\ processor.type = "None" \/ processor.type = r.type
    /\ CASE processor.find # None -> Contains(r.rule, processor.find)
         [] processor.find = None /\ processor.pattern # None
                -> Contains(r.rule, processor.pattern)
         [] OTHER -> TRUE

C9_Selected(r) ==
    {i \in 1..Len(info.processors) : C9_Selects(info.processors[i], r)}

\* C9: the rule process_rule leaves is the rule it was given when no
\* processor is selected, and otherwise the rule it was given with the
\* first selected processor applied, once, and no other.
C9_FirstProcessorOnly ==
    step.processed =>
        step.rule1 =
            IF C9_Selected(step.rule0) = {} THEN step.rule0
            ELSE apply_processor(step.rule0,
                    info.processors[Min(C9_Selected(step.rule0))])

\* a processor was applied and a later one is selected by the rewritten
\* value, which it would change
C9_Witness ==
    /\ step.processed
    /\ C9_Selected(step.rule0) # {}
    /\ \E j \in C9_Selected(step.rule1) :
         /\ j > Min(C9_Selected(step.rule0))
         /\ apply_processor(step.rule1, info.processors[j]) # step.rule1

-----------------------------------------------------------------------------
(* C10 *)

\* the value handle_scheme_rule renders for a scheme rule r
C10_Rendered(r) ==
    Format(info.schemes[r.scheme].value,
           apply_escapers(r.value, info.schemes[r.scheme].escape))

\* r is a scheme rule of a configured non-grouping scheme with a non-empty
\* remainder whose rendered value does not exceed the configured max
C10_Applies(r) ==
    /\ r.type = "scheme"
    /\ r.scheme \in DOMAIN info.schemes
    /\ info.schemes[r.scheme].grouping \in {None, <<>>}
    /\ r.value # <<>>
    /\ \/ info.schemes[r.scheme].max = NoMax
       \/ Len(C10_Rendered(r)) <= info.schemes[r.scheme].max

\* C10: under an emitter that allows scheme handling, such a rule is
\* assigned the rendered value and is passed to print_rule in the same loop
\* step, whatever kind the value gets.
C10_HandledRuleIsPrinted ==
    (step.processed /\ allow_schemes(emitter) /\ C10_Applies(step.rule1)) =>
        /\ step.rule2.rule = C10_Rendered(step.rule1)
        /\ step.printed

-----------------------------------------------------------------------------
(* class Aggregator *)
(*                                                                         *)
(* The text of a destination is a sequence of characters in which the text *)
(* '#!aggregated source: <url>' of a source URL, and any other occurrence  *)
(* of '#!aggregated' at a word boundary, is a single element.              *)

\* the URLs of the sources
Urls == {"u1", "u2", "u3"}

\* the text '#!aggregated source: {url}' of the output and of the search
HeaderOf(url) ==
    CASE url = "u1" -> "#!aggregated source: u1"
      [] url = "u2" -> "#!aggregated source: u2"
      [] url = "u3" -> "#!aggregated source: u3"

\* the text '#!aggregated' that ends every aggregated rule line
Marker == "#!aggregated"

\* the elements that match #!aggregated\b
AggregatedTexts == {Marker} \cup {HeaderOf(u) : u \in Urls}

\* \s of the re module
IsWhite(c) == c \in {" ", "\t", "\n", "\r"}

\* a destination that does not exist (FileNotFoundError on open)
NoFile == <<"NoFile">>

\* the text run_task reads from the destination
read_dest(file) == IF file = NoFile THEN <<>> ELSE file

Upper == {"A","B","C","D","E","F","G","H","I","J","K","L","M",
          "N","O","P","Q","R","S","T","U","V","W","X","Y","Z"}

\* [\w.-] of the ublacklist pattern
HostChar == Lower \cup Upper \cup Digit \cup {"_", ".", "-"}

\* first position at or after i that holds no whitespace
RECURSIVE WhiteEnd(_, _)
WhiteEnd(s, i) ==
    IF i > Len(s) \/ ~IsWhite(s[i]) THEN i ELSE WhiteEnd(s, i + 1)

\* first position at or after i that holds no host character
RECURSIVE HostEnd(_, _)
HostEnd(s, i) ==
    IF i > Len(s) \/ s[i] \notin HostChar THEN i ELSE HostEnd(s, i + 1)

\* ([\w.-]+)/\*(?=\s*#|$) matched at position i of a line: the host, or None
HostAt(s, i) ==
    LET e == HostEnd(s, i)
    IN  IF /\ e > i
           /\ OccursAt(s, <<"/", "*">>, e)
           /\ \/ e + 2 = Len(s) + 1
              \/ /\ WhiteEnd(s, e + 2) <= Len(s)
                 /\ s[WhiteEnd(s, e + 2)] = "#"
        THEN SubSeq(s, i, e - 1)
        ELSE None

\* ^\*://(?:\*\.)?(?:www\.)?([\w.-]+)/\*(?=\s*#|$) searched in a line:
\* group 1, or None; 'www.' is given back when nothing follows it
MatchUblacklist(s) ==
    IF ~OccursAt(s, <<"*", ":", "/", "/">>, 1) THEN None
    ELSE LET a == IF OccursAt(s, <<"*", ".">>, 5) THEN 7 ELSE 5
             b == IF OccursAt(s, <<"w", "w", "w", ".">>, a) THEN a + 4 ELSE a
         IN  IF HostAt(s, b) # None THEN HostAt(s, b) ELSE HostAt(s, a)

\* Aggregator.convert_rules_ublacklist
convert_rules_ublacklist(text, url) ==
    LET lines == Split(text, "\n")
        hits  == SelectSeq(lines, LAMBDA l :
                     /\ \E i \in 1..Len(l) : ~IsWhite(l[i])
                     /\ MatchUblacklist(l) # None)
    IN  [i \in 1..Len(hits) |-> NewRule(MatchUblacklist(hits[i]), url)]

\* Aggregator.convert_rules
convert_rules(type, text, url) ==
    CASE type = "ublacklist" -> convert_rules_ublacklist(text, url)

\* the rules the fetch loop of run_task collects from the responses
RECURSIVE fetch_rules(_, _)
fetch_rules(sources, responses) ==
    IF sources = <<>> THEN <<>>
    ELSE convert_rules(Head(sources).type, Head(responses).text,
                       Head(sources).url)
         \o fetch_rules(Tail(sources), Tail(responses))

\* the line run_task writes for an aggregated rule
aggregated_line(r) ==
    r.rule \o <<" ">> \o r.comment
    \o (IF r.comment # <<>> THEN <<" ">> ELSE <<>>) \o <<Marker, "\n">>

\* the block run_task writes for a source
output_block(url, rules) ==
    LET own == SelectSeq(rules, LAMBDA r : r.path = url)
    IN  <<" ", " ", HeaderOf(url), "\n">>
        \o Join([i \in 1..Len(own) |-> aggregated_line(own[i])], <<>>)

\* ^ under re.M
AtLineStart(text, i) == i = 1 \/ text[i - 1] = "\n"

\* ^\s+#!aggregated source: {url}\n matches from position i
HeaderMatchAt(text, url, i) ==
    /\ AtLineStart(text, i)
    /\ WhiteEnd(text, i) > i
    /\ WhiteEnd(text, i) + 1 <= Len(text)
    /\ text[WhiteEnd(text, i)] = HeaderOf(url)
    /\ text[WhiteEnd(text, i) + 1] = "\n"

\* (?=^\s+#!aggregated\b|\Z) holds at position p, which follows a "\n"
BlockLookahead(text, p) ==
    \/ p = Len(text) + 1
    \/ /\ WhiteEnd(text, p) > p
       /\ WhiteEnd(text, p) <= Len(text)
       /\ text[WhiteEnd(text, p)] \in AggregatedTexts

\* the positions of a "\n" that can end (.*?)\n after the header's "\n" at h
BlockEnds(text, h) ==
    {e \in (h + 1)..Len(text) : text[e] = "\n" /\ BlockLookahead(text, e + 1)}

\* the positions where the search of run_task can match
MatchStarts(text, url) ==
    {i \in 1..Len(text) :
        /\ HeaderMatchAt(text, url, i)
        /\ BlockEnds(text, WhiteEnd(text, i) + 1) # {}}

\* one round of the merge loop of run_task
merge_source(text, url, rules) ==
    IF MatchStarts(text, url) # {}
    THEN LET start == Min(MatchStarts(text, url))
             end   == Min(BlockEnds(text, WhiteEnd(text, start) + 1))
         IN  SubSeq(text, 1, start - 1)
             \o (IF start - 1 # 0 THEN <<"\n">> ELSE <<>>)
             \o output_block(url, rules)
             \o From(text, end + 1)
    ELSE text \o (IF text # <<>> THEN <<"\n">> ELSE <<>>)
              \o output_block(url, rules)

\* the merge loop of run_task
RECURSIVE merge(_, _, _)
merge(text, sources, rules) ==
    IF sources = <<>> THEN text
    ELSE merge(merge_source(text, Head(sources).url, rules),
               Tail(sources), rules)

\* file_strip_eol
RECURSIVE file_strip_eol(_)
file_strip_eol(text) ==
    IF text # <<>> /\ text[Len(text)] \in {"\n", "\r"}
    THEN file_strip_eol(SubSeq(text, 1, Len(text) - 1))
    ELSE text

\* a response of requests.get: the request raised a RequestException,
\* or r.ok is false, or r.ok is true and r.text is the text
fetch_failed(response) == response.status # "ok"

\* run_task writing what the sources before the failing one gave
run_task_partial(task, responses, file) ==
    LET ok == Min({i \in 1..Len(responses) : fetch_failed(responses[i])}
                  \cup {Len(responses) + 1}) - 1
        text == merge(read_dest(file), SubSeq(task.source, 1, ok),
                      fetch_rules(SubSeq(task.source, 1, ok),
                                  SubSeq(responses, 1, ok)))
    IN  [written |-> ok > 0,
         file |-> IF ok = 0 THEN file
                  ELSE IF task.strip_eol THEN file_strip_eol(text) ELSE text]

\* run_task from the responses and the destination: whether it wrote, and
\* the destination afterwards
run_task(task, responses, file) ==
    IF \E i \in 1..Len(responses) : fetch_failed(responses[i])
    THEN [written |-> FALSE, file |-> file]
    ELSE LET text == merge(read_dest(file), task.source,
                           fetch_rules(task.source, responses))
         IN  [written |-> TRUE,
              file |-> IF task.strip_eol THEN file_strip_eol(text) ELSE text]

-----------------------------------------------------------------------------
(* Specification of the Aggregator: runs of Aggregator.run over a config *)

MaxRuns == 2

H1 == HeaderOf("u1")
H2 == HeaderOf("u2")

\* the destination texts before the first run
DestTexts == {
    NoFile,
    <<>>,
    <<"c">>,
    <<"c", "\n">>,
    <<"c", "\n", "\n", " ", " ", H1, "\n", "o", " ", Marker, "\n">>,
    <<"c", "\n", "\n", "\n", " ", " ", H1, "\n", "o", " ", Marker, "\n">>,
    <<"\n", " ", " ", H1, "\n", "o", " ", Marker, "\n">>,
    <<" ", " ", H1, "\n", "o", " ", Marker, "\n", "\n",
      " ", " ", Marker, " ", "x", "\n", "h", "\n">>,
    <<" ", " ", H2, "\n", "b", " ", Marker, "\n", "\n",
      " ", " ", H1, "\n", "a", " ", Marker, "\n">>,
    <<" ", " ", H1, "\n", " ", " ", Marker, " ", "x", "\n", "h", "\n">> }

\* the texts a source can return: no rule, one rule, two rules
FetchedTexts == {
    <<"x", "\n">>,
    <<"*", ":", "/", "/", "*", ".", "a", ".", "b", "/", "*", "\n">>,
    <<"*", ":", "/", "/", "w", "w", "w", ".", "c", "/", "*", " ", "#", "x",
      "\n", "\n", "*", ":", "/", "/", "d", "/", "*", "\n">> }

Responses ==
    {[status |-> "ok", text |-> t] : t \in FetchedTexts}
    \cup {[status |-> "exception", text |-> <<>>],
          [status |-> "500", text |-> <<>>]}

Source(url) == [url |-> url, type |-> "ublacklist"]

AggTask(urls, dest, strip_eol) ==
    [source |-> [i \in 1..Len(urls) |-> Source(urls[i])],
     dest |-> dest, strip_eol |-> strip_eol]

Configs ==
    {<<AggTask(<<"u1">>, "d1", s)>> : s \in BOOLEAN}
    \cup {<<AggTask(<<"u1", "u2">>, "d1", FALSE)>>,
          <<AggTask(<<"u1">>, "d1", FALSE), AggTask(<<"u2">>, "d2", FALSE)>>}

\* a task that has not been executed
NotExecuted == [run |-> 0, source |-> <<>>, responses |-> <<>>,
                failed |-> FALSE,
                written |-> FALSE, before |-> NoFile, after |-> NoFile,
                again |-> FALSE, fresh |-> FALSE]

InitAggregate ==
    /\ input = <<>>
    /\ rule = NoRule
    /\ ConvIdle
    /\ pc = "done"
    /\ config \in Configs
    /\ \E t \in DestTexts : files = [d \in {"d1", "d2"} |->
                                        IF d = "d1" THEN t ELSE NoFile]
    /\ task_no = 0
    /\ runs = 0
    /\ last = [n \in 1..Len(config) |-> NotExecuted]

\* Aggregator.run is called
Run ==
    /\ pc = "done"
    /\ runs < MaxRuns
    /\ pc' = "run"
    /\ runs' = runs + 1
    /\ task_no' = 0
    /\ UNCHANGED <<input, rule, info, emitter, line_no, scheme_groups, stdout,
                   step, flush, config, files, last>>

\* the text holds the text '#!aggregated source: <url>' of a source
HoldsSourceHeader(text) ==
    \E i \in 1..Len(text) : text[i] \in {HeaderOf(u) : u \in Urls}

\* what an execution of a task did: the run it belongs to, the sources as
\* declared then, the responses, the destination before and after, whether
\* the execution before it succeeded with the same sources and responses
\* and left the destination as found now, and whether the task has only
\* succeeded so far, on a destination that held no source header at first
Executed(source, responses, file, old, result) ==
    [run |-> runs, source |-> source, responses |-> responses,
     failed |-> \E i \in 1..Len(responses) : fetch_failed(responses[i]),
     written |-> result.written,
     before |-> file,
     after |-> result.file,
     again |-> /\ old.run > 0
               /\ ~old.failed
               /\ old.source = source
               /\ old.responses = responses
               /\ old.after = file,
     fresh |-> /\ \A i \in 1..Len(responses) : ~fetch_failed(responses[i])
               /\ IF old.run = 0 THEN ~HoldsSourceHeader(read_dest(file))
                  ELSE old.fresh]

\* the destination and the record of the n-th task after self.run_task(task)
RunTaskResult(n, responses, result) ==
    /\ files' = [files EXCEPT ![config[n].dest] = result.file]
    /\ last' = [last EXCEPT ![n] =
                    Executed(config[n].source, responses,
                             files[config[n].dest], @, result)]

\* self.run_task(task) for the n-th task, with the responses of its sources
RunTaskWith(n, responses) ==
    RunTaskResult(n, responses,
                  run_task(config[n], responses, files[config[n].dest]))

\* the loop of Aggregator.run executes the next task
RunTask ==
    /\ pc = "run"
    /\ task_no < Len(config)
    /\ \E responses \in [1..Len(config[task_no + 1].source) -> Responses] :
         RunTaskWith(task_no + 1, responses)
    /\ task_no' = task_no + 1
    /\ pc' = IF task_no + 1 = Len(config) THEN "done" ELSE "run"
    /\ UNCHANGED <<input, rule, info, emitter, line_no, scheme_groups, stdout,
                   step, flush, config, runs>>

NextAggregate ==
    \/ Run
    \/ RunTask

SpecAggregate == InitAggregate /\ [][NextAggregate]_vars

-----------------------------------------------------------------------------
(* C3 *)

\* C3: when a task is executed again with the same fetched content, on the
\* destination as its successful execution before left it, the destination
\* is afterwards byte-identical to what it was: run_task is idempotent.
C3_Idempotent ==
    \A n \in DOMAIN last :
        (last[n].again /\ last[n].written) => last[n].after = last[n].before

-----------------------------------------------------------------------------
(* C4 *)

\* first position at or after i that holds no blank
RECURSIVE IndentEnd(_, _)
IndentEnd(text, i) ==
    IF i > Len(text) \/ text[i] \notin {" ", "\t"} THEN i
    ELSE IndentEnd(text, i + 1)

\* a line starts at i that is a '#!aggregated' header line
C4_HeaderLine(text, i) ==
    /\ AtLineStart(text, i)
    /\ IndentEnd(text, i) <= Len(text)
    /\ text[IndentEnd(text, i)] \in AggregatedTexts

\* a line starts at i that is the header line of one of the urls
C4_SourceHeaderLine(text, i, urls) ==
    /\ AtLineStart(text, i)
    /\ IndentEnd(text, i) <= Len(text)
    /\ text[IndentEnd(text, i)] \in {HeaderOf(u) : u \in urls}
    /\ \/ IndentEnd(text, i) = Len(text)
       \/ text[IndentEnd(text, i) + 1] = "\n"

\* position p lies in a span that starts at a header line of one of the
\* urls and ends before the next '#!aggregated' header line
C4_InSpan(text, p, urls) ==
    \E h \in 1..p :
        /\ C4_SourceHeaderLine(text, h, urls)
        /\ \A q \in (h + 1)..p : ~C4_HeaderLine(text, q)

\* the line ends directly in front of a header line of one of the urls,
\* where the merge puts the "\n" that separates a block from the text before
C4_Separators(text, urls) ==
    {p \in 1..Len(text) :
        text[p] = "\n" /\ C4_SourceHeaderLine(text, p + 1, urls)}

\* the text at the positions of P, in order
C4_TextAt(text, P) ==
    [k \in 1..Cardinality(P) |->
        text[CHOOSE p \in P : Cardinality({q \in P : q <= p}) = k]]

\* the text outside every span, without the positions of D
C4_Outside(text, urls, D) ==
    C4_TextAt(text, {p \in 1..Len(text) : ~C4_InSpan(text, p, urls)} \ D)

C4_UrlsOf(task) == {task.source[i].url : i \in 1..Len(task.source)}

\* C4: after a task has written its destination, the text outside the spans
\* of the task's sources is what it was before, in the same order, up to
\* the "\n" the merge writes in front of a block (tasks without strip_eol).
C4_Localized ==
    \A n \in DOMAIN last :
        (last[n].written /\ ~config[n].strip_eol) =>
            \E D \in SUBSET C4_Separators(last[n].after, C4_UrlsOf(config[n])) :
                C4_Outside(last[n].after, C4_UrlsOf(config[n]), D)
                = C4_Outside(read_dest(last[n].before),
                             C4_UrlsOf(config[n]), {})

-----------------------------------------------------------------------------
(* C5 *)

\* C5: a task of which a fetch failed, at whichever position of its source
\* list, has not written and has left its destination as it was, and the
\* loop of Aggregator.run goes on: every task up to the position of the loop
\* has been executed in this run, and a run ends only after the last task.
C5_FailedFetchWritesNothing ==
    /\ \A n \in DOMAIN last :
         (last[n].run > 0 /\ last[n].failed) =>
             ~last[n].written /\ last[n].after = last[n].before
    /\ \A n \in 1..task_no : last[n].run = runs
    /\ (pc = "done" /\ runs > 0) => task_no = Len(config)

\* a task failed on a destination that held text, and a later task of the
\* same run has written its destination
C5_Witness ==
    \E n \in DOMAIN last :
        /\ last[n].run = runs
        /\ last[n].failed
        /\ last[n].before # NoFile
        /\ \E m \in DOMAIN last :
             m > n /\ last[m].run = runs /\ last[m].written

-----------------------------------------------------------------------------
(* C11 *)

\* the first p of the items, joined and templated, are within the max
C11_Fits(items, p, scheme) ==
    Len(get_joined_value(items, p, scheme)) <= scheme.max

\* the items that remained when the k-th result of bsearch was computed
C11_Remaining(k) ==
    From(scheme_groups[flush.idx].items, Consumed(flush.log, k - 1) + 1)

\* C11: with a finite max, whenever the remaining items do not all fit in
\* one line and a line is emitted, the prefix count bsearch returned is the
\* largest one whose joined and templated length is within max, and the
\* value returned with it is the rendering of that prefix.
C11_MaxFittingPrefix ==
    (pc \in {"pack", "print"} /\ flush_scheme(flush).max # NoMax) =>
        \A k \in 1..Len(flush.log) :
            (/\ ~C11_Fits(C11_Remaining(k), Len(C11_Remaining(k)),
                          flush_scheme(flush))
             /\ flush.log[k].pos > 0) =>
                /\ C11_Fits(C11_Remaining(k), flush.log[k].pos,
                            flush_scheme(flush))
                /\ \A p \in (flush.log[k].pos + 1)..Len(C11_Remaining(k)) :
                     ~C11_Fits(C11_Remaining(k), p, flush_scheme(flush))
                /\ flush.log[k].value =
                     get_joined_value(C11_Remaining(k), flush.log[k].pos,
                                      flush_scheme(flush))

-----------------------------------------------------------------------------
(* C12 *)

\* a rule is invalid when its value is not empty and has no kind
C12_Invalid(r) == r.type = "None" /\ r.rule # <<>>

\* the lines printed for the input line the loop has just handled
C12_PrintedForLine ==
    SelectSeq(stdout, LAMBDA p : p.kind = "rule" /\ p.line = line_no)

\* C12: under ConverterCft, an input line whose rule is not invalid and
\* which neither a processor nor the scheme handling rewrites is printed
\* unchanged, also when its value is empty (a blank or comment-only line);
\* the line of an invalid rule prints nothing.
C12_CanonicalPassThrough ==
    (emitter = "ConverterCft" /\ pc = "loop" /\ line_no > 0) =>
        /\ (/\ ~C12_Invalid(step.rule0)
            /\ step.rule1 = step.rule0
            /\ ~step.schemed) =>
               /\ Len(C12_PrintedForLine) = 1
               /\ C12_PrintedForLine[1].text = step.line
        /\ C12_Invalid(step.rule0) => C12_PrintedForLine = <<>>

-----------------------------------------------------------------------------
(* C13 *)

\* the text holds a header line of the url
C13_HasBlock(text, url) ==
    \E i \in 1..Len(text) : C4_SourceHeaderLine(text, i, {url})

\* where the first header line of the url starts
C13_SpanStart(text, url) ==
    Min({i \in 1..Len(text) : C4_SourceHeaderLine(text, i, {url})})

\* where the next '#!aggregated' header line after h starts, or the end
C13_SpanEnd(text, h) ==
    Min({q \in (h + 1)..Len(text) : C4_HeaderLine(text, q)}
        \cup {Len(text) + 1})

\* the same without the blank lines that separate the span from what follows
C13_SpanEndTrimmed(text, h) ==
    Min({p \in (h + 1)..C13_SpanEnd(text, h) :
            /\ AtLineStart(text, p)
            /\ \A j \in p..(C13_SpanEnd(text, h) - 1) : IsWhite(text[j])})

\* the text with the positions h..(q - 1) replaced by the block
C13_Replaced(text, h, q, block) ==
    SubSeq(text, 1, h - 1) \o block \o From(text, q)

\* the merged texts the statement allows: the block appended after a "\n"
\* (after two when the text does not end with a newline, so that a blank
\* line lies between), or put in the place of the span, with or without the
\* blank lines at the end of the span
C13_Allowed(text, url, block) ==
    IF C13_HasBlock(text, url)
    THEN {C13_Replaced(text, C13_SpanStart(text, url),
                       C13_SpanEnd(text, C13_SpanStart(text, url)), block),
          C13_Replaced(text, C13_SpanStart(text, url),
                       C13_SpanEndTrimmed(text, C13_SpanStart(text, url)),
                       block)}
    ELSE {text \o <<"\n">> \o block, text \o <<"\n", "\n">> \o block}

\* C13: a task of one source without strip_eol that has written a
\* destination that was not empty has appended the new block after a blank
\* line when the text held no block of the source, and has otherwise
\* replaced exactly the span of the block, the text before and after it
\* kept as it was.
C13_AppendOrReplace ==
    \A n \in DOMAIN last :
        (/\ last[n].written
         /\ ~config[n].strip_eol
         /\ Len(config[n].source) = 1
         /\ read_dest(last[n].before) # <<>>) =>
            last[n].after \in
                C13_Allowed(read_dest(last[n].before), config[n].source[1].url,
                            output_block(config[n].source[1].url,
                                fetch_rules(config[n].source,
                                            last[n].responses)))

-----------------------------------------------------------------------------
(* Specification of the Aggregator with the sources of its task declared *)
(* in another order from run to run                                       *)

MaxReorderedRuns == 3

\* the texts a source returns here: no rule, one rule
ReorderResponses ==
    {[status |-> "ok", text |-> t] :
        t \in {<<"x", "\n">>,
               <<"*", ":", "/", "/", "*", ".", "a", ".", "b", "/", "*", "\n">>}}

\* the orders a run can find the three sources declared in, seen from the
\* order of the run before: the same, or the first two sources exchanged
ReorderChoices == {<<1, 2, 3>>, <<2, 1, 3>>}

\* the task with its sources in the order p
Reordered(task, p) ==
    [task EXCEPT !.source = [i \in 1..Len(task.source) |-> task.source[p[i]]]]

InitReorder ==
    /\ input = <<>>
    /\ rule = NoRule
    /\ ConvIdle
    /\ pc = "done"
    /\ config = <<AggTask(<<"u1", "u2", "u3">>, "d1", FALSE)>>
    /\ \E t \in {NoFile, <<"c", "\n">>} :
         files = [d \in {"d1", "d2"} |-> IF d = "d1" THEN t ELSE NoFile]
    /\ task_no = 0
    /\ runs = 0
    /\ last = [n \in 1..Len(config) |-> NotExecuted]

\* Aggregator.run is called on the config with the sources of its task
\* declared in some order
ReorderedRun ==
    /\ pc = "done"
    /\ runs < MaxReorderedRuns
    /\ \E p \in ReorderChoices : config' = <<Reordered(config[1], p)>>
    /\ pc' = "run"
    /\ runs' = runs + 1
    /\ task_no' = 0
    /\ UNCHANGED <<input, rule, info, emitter, line_no, scheme_groups, stdout,
                   step, flush, files, last>>

\* the loop of Aggregator.run executes the task
ReorderedRunTask ==
    /\ pc = "run"
    /\ task_no < Len(config)
    /\ \E responses \in [1..Len(config[task_no + 1].source)
                            -> ReorderResponses] :
         RunTaskWith(task_no + 1, responses)
    /\ task_no' = task_no + 1
    /\ pc' = IF task_no + 1 = Len(config) THEN "done" ELSE "run"
    /\ UNCHANGED <<input, rule, info, emitter, line_no, scheme_groups, stdout,
                   step, flush, config, runs>>

NextReorder ==
    \/ ReorderedRun
    \/ ReorderedRunTask

SpecReorder == InitReorder /\ [][NextReorder]_vars

-----------------------------------------------------------------------------
(* C14 *)

\* where the line that starts at i ends: the position of its "\n", or the
\* end of the text
RECURSIVE C14_LineEnd(_, _)
C14_LineEnd(text, i) ==
    IF i > Len(text) \/ text[i] = "\n" THEN i ELSE C14_LineEnd(text, i + 1)

\* a line starts at i that is a header line or a hand-written line: it is
\* not blank and does not end with the marker of an aggregated rule
C14_Landmark(text, i) ==
    /\ i <= Len(text)
    /\ AtLineStart(text, i)
    /\ IndentEnd(text, i) < C14_LineEnd(text, i)
    /\ text[C14_LineEnd(text, i) - 1] # Marker

\* what the line says, without its indentation
C14_LineText(text, i) ==
    SubSeq(text, IndentEnd(text, i), C14_LineEnd(text, i) - 1)

\* the lines of the text that are header lines or hand-written lines
C14_Landmarks(text) ==
    {C14_LineText(text, i) : i \in {j \in 1..Len(text) : C14_Landmark(text, j)}}

\* where such a line stands first in the text
C14_Position(text, line) ==
    Min({i \in 1..Len(text) :
            C14_Landmark(text, i) /\ C14_LineText(text, i) = line})

\* the header lines of the sources
C14_Headers(source) == {<<HeaderOf(source[i].url)>> : i \in 1..Len(source)}

\* C14: when a task has written into a text that held none of its sources'
\* header lines, the blocks stand in the order the sources were declared
\* in; when a source's header line was in the text, it stands afterwards on
\* the same side of every other header line and hand-written line as
\* before, whatever order the sources are declared in.
C14_BlockOrder ==
    \A n \in DOMAIN last :
        (last[n].written /\ ~config[n].strip_eol) =>
            LET before == read_dest(last[n].before)
                after  == last[n].after
                source == last[n].source
            IN  /\ (C14_Headers(source) \cap C14_Landmarks(before) = {}) =>
                     \A i, j \in 1..Len(source) :
                        i < j =>
                          C14_Position(after, <<HeaderOf(source[i].url)>>)
                          < C14_Position(after, <<HeaderOf(source[j].url)>>)
                /\ \A h \in C14_Headers(source) \cap C14_Landmarks(before) :
                     \A l \in (C14_Landmarks(before) \cap C14_Landmarks(after))
                              \ {h} :
                        /\ h \in C14_Landmarks(after)
                        /\ (C14_Position(before, h) < C14_Position(before, l))
                           <=> (C14_Position(after, h)
                                < C14_Position(after, l))

-----------------------------------------------------------------------------
(* C15 *)

\* an iteration of the packing loop ends with this step: bsearch has
\* returned and its result has been dealt with
C15_IterationEnds ==
    /\ pc \in {"pack", "bsearch"}
    /\ pc' = "pack"
    /\ Len(flush'.log) = Len(flush.log) + 1

\* the iteration has removed at least one item: the prefix bsearch counted,
\* not empty, or the one leading item
C15_Removes ==
    /\ Len(flush'.items) < Len(flush.items)
    /\ IF flush'.pos > 0
       THEN flush'.items = From(flush.items, flush'.pos + 1)
       ELSE flush'.items = Tail(flush.items)

\* what was removed is a prefix that fits within max, or a leading item
\* that does not fit alone
C15_RemovedAsStated ==
    IF flush'.pos > 0
    THEN C11_Fits(flush.items, flush'.pos, flush_scheme(flush))
    ELSE ~C11_Fits(flush.items, 1, flush_scheme(flush))

\* a step of the loop of bsearch narrows the range left to search
C15_BsearchNarrows ==
    (pc = "bsearch" /\ pc' = "bsearch") =>
        /\ flush.pos_min <= flush.pos_max
        /\ flush'.pos_max - flush'.pos_min < flush.pos_max - flush.pos_min

\* the flush makes progress in every step, so that it terminates
C15_Progress ==
    [][/\ C15_IterationEnds => C15_Removes
       /\ C15_BsearchNarrows]_vars

\* C15: the group flush terminates: every iteration of the packing loop
\* removes at least one of the remaining items, a non-empty prefix that
\* fits or the single leading item when it does not fit alone, and every
\* step of the binary search narrows the range it has left.
C15_FlushTerminates ==
    [][/\ C15_IterationEnds => (C15_Removes /\ C15_RemovedAsStated)
       /\ C15_BsearchNarrows]_vars

-----------------------------------------------------------------------------
(* C16 *)

\* the number of header lines of the url in the text
C16_HeaderLines(text, url) ==
    Cardinality({i \in 1..Len(text) : C4_SourceHeaderLine(text, i, {url})})

\* C16: when the destination of a task held no '#!aggregated source' header
\* at first and every execution of the task has succeeded, the destination
\* holds exactly one header line for each source of the task.
C16_OneHeaderPerSource ==
    \A n \in DOMAIN last :
        last[n].fresh =>
            \A i \in 1..Len(last[n].source) :
                C16_HeaderLines(last[n].after, last[n].source[i].url) = 1

=============================================================================
